---- MODULE Spec2Model ----
(***************************************************************************)
(* A model of drbg.py: the three SP 800-90A generators (CTRDRBG, HashDRBG, *)
(* HMACDRBG), the DRBG base class that carries the reseed counter, and the *)
(* auto-reseeding wrapper RandomByteGenerator.                             *)
(*                                                                         *)
(* Byte strings are sequences over 0..255.  A Python int is a TLA+ integer. *)
(* An optional or ill-typed argument is a record [t, b]: t is the Python   *)
(* type ("None", "bytes", "str") and b the bytes.  A count is a record     *)
(* [t, n]: t is "int" or "float" (the float n.0).                          *)
(*                                                                         *)
(* SIZES.  TLC's integers have 32 bits, so a value the code turns into an  *)
(* int (the counter block V of CTR_DRBG, V and C of Hash_DRBG, a digest)   *)
(* has at most three bytes here.  The primitives the code calls (AES,      *)
(* hashlib, hmac, os.urandom) are outside the repository and are stood in  *)
(* for by small deterministic functions with narrow blocks:                *)
(*    AES block 16 bytes -> 2, AES key 16/24/32 bytes -> 2/3/4,            *)
(*    os.urandom(32) in the wrapper -> 4 bytes (32/8, like the AES sizes), *)
(*    digest_size 20/28/32 -> 1 and 48/64 -> 2,                            *)
(*    the seedlen rule "888 if outlen > 256 else 440" -> "24 if outlen > 8 *)
(*    else 16" (Hash V and C are 2 or 3 bytes wide),                       *)
(*    max_request_size 2^13 and 2^16 -> 2^MaxReqExpCTR, 2^MaxReqExpHash,   *)
(*    MAX_ENTROPY_LENGTH 2^21 -> 2^MaxEntropyExp.                          *)
(* Every formula of the code over these sizes is kept as the code has it.  *)
(***************************************************************************)
EXTENDS Integers, Sequences, FiniteSets, TLC

(***************************************************************************)
(* Module constants                                                        *)
(***************************************************************************)
DIGESTS == {"sha1", "sha224", "sha256", "sha384", "sha512"}

CIPHERS == {"aes128", "aes192", "aes256"}

MaxEntropyExp == 3

MAX_ENTROPY_LENGTH == 2^MaxEntropyExp

RESEED_INTERVAL == 2

MaxReqExpCTR == 3

MaxReqExpHash == 4

\* The stand-in primitives map their input to one of HashMod classes.
HashMod == 5

(***************************************************************************)
(* Values                                                                  *)
(***************************************************************************)
Rep(x, n) == [i \in 1..n |-> x]

None == [t |-> "None", b |-> <<>>]

Bytes(b) == [t |-> "bytes", b |-> b]

Str == [t |-> "str", b |-> <<>>]

\* Python truthiness of an optional byte string: None and b'' are false.
Truthy(d) == d.t = "bytes" /\ Len(d.b) > 0

\* isinstance(x, (bytes, bytearray))
IsBytes(d) == d.t = "bytes"

IntCount(n) == [t |-> "int", n |-> n]

FloatCount(n) == [t |-> "float", n |-> n]

(***************************************************************************)
(* Byte/integer codec                                                      *)
(***************************************************************************)
RECURSIVE bytes2long(_)
bytes2long(b) ==
    IF Len(b) = 0 THEN 0
    ELSE bytes2long(SubSeq(b, 1, Len(b) - 1)) * 256 + b[Len(b)]

\* hex(l)[2:]: the hexadecimal digits of l, most significant first, "0" for 0.
RECURSIVE hex(_)
hex(l) == IF l < 16 THEN <<l>> ELSE hex(l \div 16) \o <<l % 16>>

\* A faulty variant of EvenHex, for sensitivity: an odd number of digits is
\* left as it is, and fromhex loses the last digit.
EvenHexUnpadded(as_hex) == as_hex

\* bytes.fromhex of an even number of digits.
fromhex(h) == [i \in 1..(Len(h) \div 2) |-> h[2 * i - 1] * 16 + h[2 * i]]

\* if len(as_hex) % 2 != 0: as_hex = '0' + as_hex
EvenHex(as_hex) == IF Len(as_hex) % 2 /= 0 THEN <<0>> \o as_hex ELSE as_hex

long2bytes(l) == fromhex(EvenHex(hex(l)))

bytepad(b, L) == IF Len(b) < L THEN Rep(0, L - Len(b)) \o b ELSE b

\* x ^ y on two bytes, bit by bit.
XorBit(x, y, k) == (((x \div k) + (y \div k)) % 2) * k

XorByte(x, y) ==
    XorBit(x, y, 1) + XorBit(x, y, 2) + XorBit(x, y, 4) + XorBit(x, y, 8)
    + XorBit(x, y, 16) + XorBit(x, y, 32) + XorBit(x, y, 64) + XorBit(x, y, 128)

\* Crypto.Util.strxor.strxor on strings of one length.
strxor(a, b) == [i \in 1..Len(a) |-> XorByte(a[i], b[i])]

\* int(math.ceil(a / float(b)))
CeilDiv(a, b) == (a + b - 1) \div b

(***************************************************************************)
(* Stand-ins for the external primitives                                   *)
(***************************************************************************)
\* The class of the first k bytes of s: a fold over them, from the class
\* seed of the empty string.
RECURSIVE Mix(_, _, _)
Mix(s, k, seed) ==
    IF k = 0 THEN seed % HashMod
    ELSE (Mix(s, k - 1, seed) * 7 + s[k] + 1) % HashMod

\* The class of the string s.
MixAll(s, seed) == Mix(s, Len(s), seed)

ToyBytes(n, class) == [j \in 1..n |-> (class * 53 + j * 101) % 256]

NameTag(name) ==
    CASE name = "sha1" -> 1 [] name = "sha224" -> 2 [] name = "sha256" -> 3
      [] name = "sha384" -> 4 [] name = "sha512" -> 5 [] OTHER -> 0

\* hashlib.<name>().digest_size
digest_size(name) == IF name \in {"sha384", "sha512"} THEN 2 ELSE 1

\* hashlib.<name>(data).digest()
digest(name, data) == ToyBytes(digest_size(name), MixAll(data, NameTag(name)))

\* hmac.new(K, value, digestmod).digest()
hmac_digest(name, K, value) ==
    ToyBytes(digest_size(name), MixAll(K \o <<92>> \o value, NameTag(name) + 1))

\* Crypto.Cipher.AES.new(K).encrypt(block)
encrypt(K, block) == ToyBytes(Len(block), MixAll(K \o block, Len(K)))

(***************************************************************************)
(* Generator objects.  self is the record of a generator's attributes:     *)
(* family and name fix the class and the cipher or digest; key, V, C are   *)
(* __key, __V, __C (<<>> where the class has no such attribute).           *)
(***************************************************************************)
NoDRBG ==
    [family |-> "none", name |-> "", key |-> <<>>, V |-> <<>>, C |-> <<>>,
     reseed_counter |-> 0]

\* self.keylen = int(name[3:]), in bits
keylen(self) ==
    CASE self.name = "aes128" -> 16 [] self.name = "aes192" -> 24
      [] self.name = "aes256" -> 32 [] OTHER -> 0

\* self.outlen, in bits
outlen(self) ==
    IF self.family = "CTR" THEN 16 ELSE 8 * digest_size(self.name)

\* self.seedlen: bytes for CTRDRBG, bits for HashDRBG and HMACDRBG
seedlen(self) ==
    IF self.family = "CTR" THEN (outlen(self) + keylen(self)) \div 8
    ELSE IF outlen(self) > 8 THEN 24 ELSE 16

\* self.max_request_size, in bytes
max_request_size(self) ==
    IF self.family = "CTR" THEN 2^MaxReqExpCTR ELSE 2^MaxReqExpHash

\* What a call gives back: the exception raised ("ok" for none), the bytes
\* returned, and the object as the call leaves it.
Return(self, out) == [result |-> "ok", out |-> out, self |-> self]

Raise(self, exc) == [result |-> exc, out |-> <<>>, self |-> self]

\* s[:n] for an int n >= 0
Prefix(s, n) == SubSeq(s, 1, IF n < Len(s) THEN n ELSE Len(s))

\* s[-n:] for an int n > 0
Suffix(s, n) == SubSeq(s, IF n < Len(s) THEN Len(s) - n + 1 ELSE 1, Len(s))

\* A faulty variant of the slice, for sensitivity: every block generated is
\* returned, temp instead of temp[:count].
SliceWhole(self, temp, count) ==
    IF count.t = "int" THEN Return(self, temp) ELSE Raise(self, "TypeError")

\* return temp[:count]: a float index raises TypeError.
Slice(self, temp, count) ==
    IF count.t = "int" THEN Return(self, Prefix(temp, count.n))
    ELSE Raise(self, "TypeError")

(***************************************************************************)
(* CTRDRBG                                                                 *)
(***************************************************************************)
\* self.__key, self.__V = kv
SetKV(self, kv) == [self EXCEPT !.key = kv[1], !.V = kv[2]]

\* V = long2bytes((bytes2long(V) + 1) % 2**self.outlen)
CTRIncr(self, V) == long2bytes((bytes2long(V) + 1) % 2^outlen(self))

\* The while loop of __update (lines 316-318): temp once len(temp) >= seedlen.
RECURSIVE CTRUpdateLoop(_, _, _, _)
CTRUpdateStep(self, Key, V, temp) ==
    CTRUpdateLoop(self, Key, V,
                  temp \o encrypt(Key, bytepad(V, outlen(self) \div 8)))

CTRUpdateLoop(self, Key, V, temp) ==
    IF Len(temp) < seedlen(self)
    THEN CTRUpdateStep(self, Key, CTRIncr(self, V), temp)
    ELSE temp

\* Key = temp[:self.keylen // 8]; V = temp[-self.outlen // 8:]
CTRSplit(self, temp) ==
    <<Prefix(temp, keylen(self) \div 8), Suffix(temp, outlen(self) \div 8)>>

\* CTRDRBG.__update: <<Key, V>>
CTR_update(self, provided_data, Key, V) ==
    CTRSplit(self, strxor(Prefix(CTRUpdateLoop(self, Key, V, <<>>), seedlen(self)),
                          bytepad(provided_data, seedlen(self))))

\* if len(V) < self.outlen // 8: V = zeros + V (lines 289-290)
CTRPadV(self, V) ==
    IF Len(V) < outlen(self) \div 8
    THEN Rep(0, outlen(self) \div 8 - Len(V)) \o V ELSE V

\* The while loop of _generate (lines 286-292): <<V, temp>> at its end.
RECURSIVE CTRGenerateLoop(_, _, _, _, _)
CTRGenerateStep(self, K, V, temp, count) ==
    CTRGenerateLoop(self, K, V, temp \o encrypt(K, V), count)

CTRGenerateLoop(self, K, V, temp, count) ==
    IF Len(temp) < count
    THEN CTRGenerateStep(self, K, CTRPadV(self, CTRIncr(self, V)), temp, count)
    ELSE <<V, temp>>

\* data += b'\x00' * (self.seedlen - len(data)), and data or b'' (line 294)
CTRPadData(self, data) ==
    IF Truthy(data) THEN data.b \o Rep(0, seedlen(self) - Len(data.b)) ELSE <<>>

\* Lines 294-295, with loop the <<V, temp>> the while loop ended with.
CTRGenerateEnd(self, count, data, K, loop) ==
    Slice(SetKV(self, CTR_update(self, data, K, loop[1])), loop[2], count)

\* Lines 283-295, with kv the <<Key, V>> of lines 278-281.
CTRGenerateBody(self, count, data, kv) ==
    CTRGenerateEnd(self, count, data, kv[1],
                   CTRGenerateLoop(self, kv[1], kv[2], <<>>, count.n))

\* CTRDRBG._generate
CTR_generate(self, count, data) ==
    IF Truthy(data) /\ Len(data.b) > seedlen(self) THEN Raise(self, "ValueError")
    ELSE CTRGenerateBody(self, count, CTRPadData(self, data),
             IF Truthy(data)
             THEN CTR_update(self, CTRPadData(self, data), self.key, self.V)
             ELSE <<self.key, self.V>>)

\* A faulty variant of _reseed, for sensitivity: the length of the entropy
\* is not looked at.
CTR_reseedAnyEntropy(self, entropy, data) ==
    IF Truthy(data) /\ Len(data.b) > seedlen(self) THEN Raise(self, "ValueError")
    ELSE Return(SetKV(self, CTR_update(self,
                    IF Truthy(data)
                    THEN strxor(entropy.b, bytepad(data.b, seedlen(self)))
                    ELSE entropy.b,
                    self.key, self.V)), <<>>)

\* CTRDRBG._reseed
CTR_reseed(self, entropy, data) ==
    IF Truthy(data) /\ Len(data.b) > seedlen(self) THEN Raise(self, "ValueError")
    ELSE IF Len(entropy.b) /= seedlen(self) THEN Raise(self, "ValueError")
    ELSE Return(SetKV(self, CTR_update(self,
                    IF Truthy(data)
                    THEN strxor(entropy.b, bytepad(data.b, seedlen(self)))
                    ELSE entropy.b,
                    self.key, self.V)), <<>>)

\* delta = len(entropy) - len(data); if delta > 0: data = zeros + data
CTRInitPad(entropy, data) ==
    IF Len(entropy) - Len(data) > 0
    THEN Rep(0, Len(entropy) - Len(data)) \o data ELSE data

\* CTRDRBG.__init__ after DRBG.__init__ and the cipher lookup (lines 250-272).
CTR_init(self, entropy, data) ==
    IF Len(entropy.b) /= seedlen(self) THEN Raise(NoDRBG, "ValueError")
    ELSE IF Truthy(data) /\ Len(data.b) > seedlen(self)
    THEN Raise(NoDRBG, "ValueError")
    ELSE Return(SetKV(self, CTR_update(self,
                    IF Truthy(data)
                    THEN strxor(entropy.b, CTRInitPad(entropy.b, data.b))
                    ELSE entropy.b,
                    Rep(0, keylen(self) \div 8), Rep(0, outlen(self) \div 8))),
                <<>>)

(***************************************************************************)
(* HashDRBG                                                                *)
(***************************************************************************)
\* The for loop of __df: the digests of counters counter..iterations-1.
RECURSIVE DfLoop(_, _, _, _, _)
DfLoop(self, input_string, output_bitlen, counter, iterations) ==
    IF counter >= iterations THEN <<>>
    ELSE digest(self.name, <<(counter + 1) % 255>>
                           \o bytepad(long2bytes(output_bitlen), 4)
                           \o input_string)
         \o DfLoop(self, input_string, output_bitlen, counter + 1, iterations)

\* HashDRBG.__df
Hash_df(self, input_string, output_bitlen) ==
    Prefix(DfLoop(self, input_string, output_bitlen, 0,
                  CeilDiv(output_bitlen, outlen(self))),
           (output_bitlen + 4) \div 8)

\* The for loop of hashgen: the digests of rounds i..m-1 starting at data.
RECURSIVE HashgenLoop(_, _, _, _)
HashgenLoop(self, data, i, m) ==
    IF i >= m THEN <<>>
    ELSE digest(self.name, bytepad(data, seedlen(self) \div 8))
         \o HashgenLoop(self,
                long2bytes((bytes2long(data) + 1) % 2^seedlen(self)), i + 1, m)

\* hashgen (lines 406-414); w[:count] raises TypeError for a float count.
hashgen(self, count, V) ==
    Prefix(HashgenLoop(self, V, 0, CeilDiv(8 * count.n, outlen(self))), count.n)

\* A faulty variant of HashPad, for sensitivity: V is stored as long2bytes
\* gives it, without its leading zero bytes.
HashPadNone(self, V) == V

\* if len(V) < self.seedlen // 8: V = zeros + V (lines 421-423, 435-437)
HashPad(self, V) ==
    IF Len(V) < seedlen(self) \div 8
    THEN Rep(0, seedlen(self) \div 8 - Len(V)) \o V ELSE V

\* V = long2bytes(x % 2**self.seedlen), then padded
HashWrap(self, x) == HashPad(self, long2bytes(x % 2^seedlen(self)))

\* self.__V = V; self.__C = self.__df(b'\x00' + self.__V, self.seedlen)
HashSetVC(self, V) ==
    [self EXCEPT !.V = V, !.C = Hash_df(self, <<0>> \o V, seedlen(self))]

\* A faulty variant of HashGenerateBody, for sensitivity: generate derives C
\* again from the V it stores, as _reseed does.
HashGenerateBodyNewC(self, count, V) ==
    IF count.t /= "int" THEN Raise(self, "TypeError")
    ELSE Return(HashSetVC(self,
                    HashWrap(self, bytes2long(V)
                                   + bytes2long(digest(self.name, <<3>> \o V))
                                   + bytes2long(self.C)
                                   + self.reseed_counter)),
                hashgen(self, count, V))

\* Lines 427-440, with V the value lines 416-425 give it.
HashGenerateBody(self, count, V) ==
    IF count.t /= "int" THEN Raise(self, "TypeError")
    ELSE Return([self EXCEPT !.V =
                    HashWrap(self, bytes2long(V)
                                   + bytes2long(digest(self.name, <<3>> \o V))
                                   + bytes2long(self.C)
                                   + self.reseed_counter)],
                hashgen(self, count, V))

\* HashDRBG._generate
Hash_generate(self, count, data) ==
    HashGenerateBody(self, count,
        IF data.t /= "None"
        THEN HashWrap(self, bytes2long(self.V)
                 + bytes2long(digest(self.name, <<2>> \o self.V \o data.b)))
        ELSE self.V)

\* data or b''
OrEmpty(data) == IF Truthy(data) THEN data.b ELSE <<>>

\* HashDRBG._reseed
Hash_reseed(self, entropy, data) ==
    Return(HashSetVC(self, Hash_df(self, <<1>> \o self.V \o entropy.b
                                         \o OrEmpty(data), seedlen(self))),
           <<>>)

\* HashDRBG.__init__ after the digest lookup and DRBG.__init__ (lines 394-396).
Hash_init(self, entropy, nonce, data) ==
    IF ~IsBytes(nonce) THEN Raise(NoDRBG, "TypeError")
    ELSE Return(HashSetVC(self, Hash_df(self, entropy.b \o nonce.b
                                              \o OrEmpty(data), seedlen(self))),
                <<>>)

(***************************************************************************)
(* HMACDRBG                                                                *)
(***************************************************************************)
RECURSIVE Join(_)
Join(parts) == IF Len(parts) = 0 THEN <<>> ELSE Head(parts).b \o Join(Tail(parts))

\* HMACDRBG._mac(K, V, *Vs) with every part of Vs a byte string
HMAC_mac(self, K, V, Vs) == hmac_digest(self.name, K, V \o Join(Vs))

\* data = [_ for _ in data if _]: None and empty parts are dropped; a str
\* stays and makes the first _mac raise TypeError.
HMACParts(data) == SelectSeq(data, LAMBDA d: Truthy(d) \/ d.t = "str")

\* V = self._mac(K, V) with the K just computed (lines 496, 500)
HMACNewV(self, K, V) == [result |-> "ok", K |-> K, V |-> HMAC_mac(self, K, V, <<>>)]

\* Lines 495-496
HMACUpdateFirst(self, K, V, parts) ==
    HMACNewV(self, HMAC_mac(self, K, V, <<Bytes(<<0>>)>> \o parts), V)

\* Lines 498-500, with kv the K and V of lines 495-496
HMACUpdateSecond(self, kv, parts) ==
    IF Len(parts) > 0
    THEN HMACNewV(self, HMAC_mac(self, kv.K, kv.V, <<Bytes(<<1>>)>> \o parts), kv.V)
    ELSE kv

\* Lines 495-502 on the parts line 493 keeps
HMACUpdateParts(self, K, V, parts) ==
    IF \E i \in 1..Len(parts) : ~IsBytes(parts[i])
    THEN [result |-> "TypeError", K |-> K, V |-> V]
    ELSE HMACUpdateSecond(self, HMACUpdateFirst(self, K, V, parts), parts)

\* HMACDRBG.__update(K, V, *data): the exception raised and the new K, V
HMAC_update(self, K, V, data) == HMACUpdateParts(self, K, V, HMACParts(data))

\* self.__key, self.__V = kv
HMACSetKV(self, kv) == [self EXCEPT !.key = kv.K, !.V = kv.V]

\* The while loop of _generate (lines 484-486): <<V, out>> at its end.
RECURSIVE HMACGenerateLoop(_, _, _, _, _)
HMACGenerateStep(self, K, V, out, count) ==
    HMACGenerateLoop(self, K, V, out \o V, count)

HMACGenerateLoop(self, K, V, out, count) ==
    IF Len(out) < count
    THEN HMACGenerateStep(self, K, HMAC_mac(self, K, V, <<>>), out, count)
    ELSE <<V, out>>

\* Lines 488-490, with loop the <<V, out>> the while loop ended with.
HMACGenerateEnd(self, count, data, K, loop) ==
    Slice(HMACSetKV(self, HMAC_update(self, K, loop[1], <<data>>)), loop[2], count)

\* Lines 482-490, with kv the K and V of lines 477-480.
HMACGenerateBody(self, count, data, kv) ==
    HMACGenerateEnd(self, count, data, kv.K,
                    HMACGenerateLoop(self, kv.K, kv.V, <<>>, count.n))

\* HMACDRBG._generate
HMAC_generate(self, count, data) ==
    HMACGenerateBody(self, count, data,
        IF Truthy(data) THEN HMAC_update(self, self.key, self.V, <<data>>)
        ELSE [result |-> "ok", K |-> self.key, V |-> self.V])

\* The assignment of __update's result, unless __update raised.
HMACAssign(self, unbuilt, kv) ==
    IF kv.result /= "ok" THEN Raise(unbuilt, kv.result)
    ELSE Return(HMACSetKV(self, kv), <<>>)

\* HMACDRBG.reseed: it overrides DRBG.reseed, not DRBG._reseed.
HMAC_reseed(self, entropy_input, additional_input) ==
    HMACAssign(self, self,
               HMAC_update(self, self.key, self.V,
                           <<entropy_input, additional_input>>))

\* HMACDRBG.__init__ after the digest lookup and DRBG.__init__ (lines 472-474).
HMAC_init(self, entropy, nonce, data) ==
    HMACAssign(self, NoDRBG,
               HMAC_update(self, Rep(0, outlen(self) \div 8),
                           Rep(1, outlen(self) \div 8), <<entropy, nonce, data>>))

(***************************************************************************)
(* DRBG: the base class                                                    *)
(***************************************************************************)
\* self._generate(count, data)
DRBG__generate(self, count, data) ==
    CASE self.family = "CTR" -> CTR_generate(self, count, data)
      [] self.family = "Hash" -> Hash_generate(self, count, data)
      [] OTHER -> HMAC_generate(self, count, data)

\* Two faulty variants of the test of line 179, for sensitivity: one lets a
\* call through after the interval is exceeded, one refuses a call early.
ReseedDueLate(self) == self.reseed_counter > RESEED_INTERVAL + 1

ReseedDueAtInterval(self) == self.reseed_counter >= RESEED_INTERVAL

\* The test of line 179: a reseed is required.
ReseedDue(self) == self.reseed_counter > RESEED_INTERVAL

\* The test of line 170: the count is in range.
CountInRange(self, count) == 0 < count.n /\ count.n < max_request_size(self)

\* Lines 183-184, with r what self._generate gave: an exception goes on to
\* the caller with whatever _generate had written.
GenerateEnd(r) ==
    IF r.result /= "ok" THEN r
    ELSE Return([r.self EXCEPT !.reseed_counter = @ + 1], r.out)

\* DRBG.generate
DRBG_generate(self, count, data) ==
    IF ~CountInRange(self, count) THEN Raise(self, "ValueError")
    ELSE IF data.t /= "None" /\ ~IsBytes(data) THEN Raise(self, "TypeError")
    ELSE IF data.t /= "None" /\ Len(data.b) > MAX_ENTROPY_LENGTH
    THEN Raise(self, "ValueError")
    ELSE IF ReseedDue(self) THEN Raise(self, "ReseedRequired")
    ELSE GenerateEnd(DRBG__generate(self, count, data))

\* self._reseed(entropy, data)
DRBG__reseed(self, entropy, data) ==
    IF self.family = "CTR" THEN CTR_reseed(self, entropy, data)
    ELSE Hash_reseed(self, entropy, data)

\* Line 204, with r what self._reseed gave.
ReseedEnd(r) ==
    IF r.result /= "ok" THEN r
    ELSE Return([r.self EXCEPT !.reseed_counter = 1], <<>>)

\* DRBG.reseed
DRBG_reseed(self, entropy, data) ==
    IF ~IsBytes(entropy) THEN Raise(self, "TypeError")
    ELSE IF data.t /= "None" /\ ~IsBytes(data) THEN Raise(self, "TypeError")
    ELSE ReseedEnd(DRBG__reseed(self, entropy, data))

\* drbg.reseed(entropy, data) as Python dispatches it
reseed(self, entropy, data) ==
    IF self.family = "HMAC" THEN HMAC_reseed(self, entropy, data)
    ELSE DRBG_reseed(self, entropy, data)

\* DRBG.__init__
DRBG_init(self, entropy, data) ==
    IF ~IsBytes(entropy) THEN Raise(NoDRBG, "TypeError")
    ELSE IF data.t /= "None" /\ ~IsBytes(data) THEN Raise(NoDRBG, "TypeError")
    ELSE Return([self EXCEPT !.reseed_counter = 1], <<>>)

\* CTRDRBG.__init__: DRBG.__init__ runs first, then the cipher lookup.
CTR_new(name, base, entropy, data) ==
    IF base.result /= "ok" THEN base
    ELSE IF name \notin CIPHERS THEN Raise(NoDRBG, "ValueError")
    ELSE CTR_init(base.self, entropy, data)

\* HashDRBG.__init__: the digest lookup runs first, then DRBG.__init__.
Hash_new(name, base, entropy, nonce, data) ==
    IF name \notin DIGESTS THEN Raise(NoDRBG, "RuntimeError")
    ELSE IF base.result /= "ok" THEN base
    ELSE Hash_init(base.self, entropy, nonce, data)

\* HMACDRBG.__init__: the digest lookup runs first, then DRBG.__init__.
HMAC_new(name, base, entropy, nonce, data) ==
    IF name \notin DIGESTS THEN Raise(NoDRBG, "RuntimeError")
    ELSE IF base.result /= "ok" THEN base
    ELSE HMAC_init(base.self, entropy, nonce, data)

\* An object of class family for the cipher or digest name, not yet set up.
Blank(family, name) == [NoDRBG EXCEPT !.family = family, !.name = name]

\* CTRDRBG(name, entropy, data), HashDRBG(name, entropy, nonce, data) and
\* HMACDRBG(name, entropy, nonce, data)
Construct(family, name, entropy, nonce, data) ==
    CASE family = "CTR" ->
           CTR_new(name, DRBG_init(Blank(family, name), entropy, data),
                   entropy, data)
      [] family = "Hash" ->
           Hash_new(name, DRBG_init(Blank(family, name), entropy, data),
                    entropy, nonce, data)
      [] OTHER ->
           HMAC_new(name, DRBG_init(Blank(family, name), entropy, data),
                    entropy, nonce, data)

(***************************************************************************)
(* new: the factory.  An algorithm name is a sequence of characters.       *)
(***************************************************************************)
\* name.lower(), for the letters the algorithm names are written with
LowerChar(c) ==
    CASE c = "A" -> "a" [] c = "C" -> "c" [] c = "E" -> "e" [] c = "H" -> "h"
      [] c = "M" -> "m" [] c = "S" -> "s" [] OTHER -> c

lower(name) == [i \in 1..Len(name) |-> LowerChar(name[i])]

\* The characters of a digest or cipher name of DIGESTS or CIPHERS.
Spell(word) ==
    CASE word = "sha1" -> <<"s", "h", "a", "1">>
      [] word = "sha224" -> <<"s", "h", "a", "2", "2", "4">>
      [] word = "sha256" -> <<"s", "h", "a", "2", "5", "6">>
      [] word = "sha384" -> <<"s", "h", "a", "3", "8", "4">>
      [] word = "sha512" -> <<"s", "h", "a", "5", "1", "2">>
      [] word = "aes128" -> <<"a", "e", "s", "1", "2", "8">>
      [] word = "aes192" -> <<"a", "e", "s", "1", "9", "2">>
      [] word = "aes256" -> <<"a", "e", "s", "2", "5", "6">>
      [] word = "hmac" -> <<"h", "m", "a", "c">>
      [] OTHER -> <<>>

\* s[i:].startswith(t)
StartsAt(s, i, t) ==
    Len(s) >= i + Len(t) - 1 /\ SubSeq(s, i, i + Len(t) - 1) = t

IsDigit(s, i) ==
    i <= Len(s) /\ s[i] \in {"0", "1", "2", "3", "4", "5", "6", "7", "8", "9"}

\* [0-9]{1,3} at position i: the number of characters the greedy match takes
\* (0: no match).
DigitRun(s, i) ==
    IF ~IsDigit(s, i) THEN 0
    ELSE IF ~IsDigit(s, i + 1) THEN 1
    ELSE IF ~IsDigit(s, i + 2) THEN 2 ELSE 3

\* The groups of the match of (sha[0-9]{1,3})(hmac)? that takes k digits.
MatchGroups(s, k) ==
    [matched |-> TRUE, digest |-> SubSeq(s, 1, 3 + k),
     use_hmac |-> StartsAt(s, 4 + k, Spell("hmac"))]

\* re.match('(sha[0-9]{1,3})(hmac)?', s): the match is at the start of s and
\* need not reach its end.
Match(s) ==
    IF StartsAt(s, 1, <<"s", "h", "a">>) /\ DigitRun(s, 4) >= 1
    THEN MatchGroups(s, DigitRun(s, 4))
    ELSE [matched |-> FALSE, digest |-> <<>>, use_hmac |-> FALSE]

\* Lines 525-529, with found the digests of DIGESTS that digest spells: drbg
\* stays None unless use_hmac.
NewDigest(found, use_hmac, entropy, nonce, personalization_string) ==
    IF found = {} THEN Raise(NoDRBG, "ValueError")
    ELSE IF use_hmac
    THEN Construct("HMAC", CHOOSE d \in found : TRUE, entropy, nonce,
                   personalization_string)
    ELSE Return(NoDRBG, <<>>)

\* Lines 519-531, with m the match: the object returned, NoDRBG for None.
NewMatched(m, entropy, nonce, personalization_string) ==
    IF m.matched
    THEN NewDigest({d \in DIGESTS : Spell(d) = m.digest}, m.use_hmac,
                   entropy, nonce, personalization_string)
    ELSE Return(NoDRBG, <<>>)

\* new(name, personalization_string), with entropy and nonce the bytes the
\* two calls of os.urandom(128) give.
new(name, personalization_string, entropy, nonce) ==
    NewMatched(Match(lower(name)), entropy, nonce, personalization_string)

\* The length of the entropy and of the nonce the factory draws,
\* os.urandom(128), at the scale of the other sizes.
FactoryEntropyLen == 128 \div 8

(***************************************************************************)
(* RandomByteGenerator._get_bytes, one drbg call at a time                 *)
(***************************************************************************)
\* count_ = max_request if count > max_request else count
Chunk(self, count) ==
    IF count > max_request_size(self) THEN max_request_size(self) ELSE count

\* The bytes os.urandom(n) may return: two of the 256^n strings.
urandom(n) == {Rep(165, n), [i \in 1..n |-> (i * 17) % 256]}

\* The length of the entropy the wrapper reseeds with, os.urandom(32) (line
\* 113), at the scale of the AES sizes: the seedlen of aes128 and of no other
\* cipher, as in the code.
WrapperEntropyLen == 32 \div 8

(***************************************************************************)
(* The state machine.  One process: a caller that constructs a generator,  *)
(* then calls generate and reseed on it directly or through a              *)
(* RandomByteGenerator wrapped around it.                                  *)
(***************************************************************************)
VARIABLES
    drbg,     \* the generator object (NoDRBG before construction)
    last,     \* the call the caller's last operation made last on the generator
    gens,     \* generate calls that succeeded since construction or reseed
    wpc,      \* where the wrapper is: "idle", "loop" (line 108), "reseed" (113),
              \* "refilled" (line 121, generate() has returned to __next__)
    w,        \* _get_bytes' locals count and buf, with the count asked for
              \* (req), the last chunk attempted (chunk), and whether the
              \* wrapper has reseeded since a chunk last succeeded (reseeded),
              \* and whether the call is one of __next__ (pull)
    wresult,  \* how the wrapper call ended, when it was the last operation
              \* ("none": no wrapper call, "running": it has not ended)
    rbg       \* the RandomByteGenerator around the generator: _buf and
              \* _buf_index, with the bytes __next__ has yielded since the last
              \* refill (pulled) and _buf_index as the last refill found it
              \* (refill_at)

vars == <<drbg, last, gens, wpc, w, wresult, rbg>>

NoCall ==
    [op |-> "none", by |-> "caller", count |-> IntCount(0), data |-> None,
     entropy |-> None, result |-> "ok", out |-> <<>>, before |-> NoDRBG,
     name |-> <<>>, padded |-> <<>>]

\* The record of a call: its arguments, what it gave back, and the object as
\* it was when the call was made (for a constructor: the object of the class
\* asked for, with nothing set up).  name is the algorithm name given to the
\* factory.
Call(op, by, count, data, entropy, r, before) ==
    [op |-> op, by |-> by, count |-> count, data |-> data, entropy |-> entropy,
     result |-> r.result, out |-> r.out, before |-> before, name |-> <<>>,
     padded |-> <<>>]

\* The generators the caller constructs: every cipher, and for the two
\* digest families one digest of each seedlen class (the digests of one class
\* run the same code on the same sizes here).
Algs ==
    ({"CTR"} \X CIPHERS) \cup ({"Hash", "HMAC"} \X {"sha256", "sha512"})

\* Entropy of n bytes given by the caller.
Ent(n) == Bytes([i \in 1..n |-> (i * 37 + n) % 256])

NewInputs ==
    ({Ent(4), Ent(5), Ent(6)} \X {None}) \cup {<<Ent(4), Bytes(<<9>>)>>}

\* Additional input: empty, short, longer than any CTR seedlen, longer than
\* MAX_ENTROPY_LENGTH, and of the wrong type.
GenData ==
    {Bytes(<<>>), Bytes(<<9>>), Bytes(Rep(9, MAX_ENTROPY_LENGTH - 1)),
     Bytes(Rep(9, MAX_ENTROPY_LENGTH + 1)), Str}

\* Counts at both ends of the legal range 1..max_request_size-1.
GenCounts(self) ==
    {0, 1, 2, 3, max_request_size(self) - 1, max_request_size(self)}

GenInputs(self) ==
    {<<IntCount(n), None>> : n \in GenCounts(self)}
    \cup ({IntCount(3)} \X GenData)
    \cup ({FloatCount(2)} \X {None, Bytes(<<9>>)})

ReseedInputs ==
    ({Ent(4), Ent(5), Ent(6)} \X {None})
    \cup {<<Ent(4), Bytes(<<9>>)>>,
          <<Ent(4), Bytes(Rep(9, MAX_ENTROPY_LENGTH + 1))>>,
          <<Ent(6), Bytes(Rep(9, MAX_ENTROPY_LENGTH - 1))>>,
          <<Str, None>>, <<Ent(4), Str>>}

\* generate(count): None stands for the default outlen // 8 (line 101).
WCounts(self) ==
    {outlen(self) \div 8, 0, 3, max_request_size(self) - 1,
     max_request_size(self), max_request_size(self) + 1}

\* No wrapper call is running or was the caller's last operation.
NoWrapper ==
    [req |-> 0, count |-> 0, buf |-> <<>>, chunk |-> 0, reseeded |-> FALSE,
     pull |-> FALSE]

\* RandomByteGenerator.__init__
NewRBG == [buf |-> <<>>, buf_index |-> 0, pulled |-> <<>>, refill_at |-> 0]

\* A faulty variant of the test of line 120, for sensitivity: the buffer is
\* refilled with one byte left.
ExhaustedEarly(self) == self.buf_index <= 1

\* if self._buf_index == 0
Exhausted(self) == self.buf_index = 0

\* self._buf = self.generate(); self._buf_index = len(self._buf)
Refill(self, buf) ==
    [self EXCEPT !.buf = buf, !.buf_index = Len(buf), !.pulled = <<>>]

\* self._buf_index -= 1; return self._buf[self._buf_index] (sequences here
\* count from 1, so the byte is the one at the index before the decrement)
Yield(self) ==
    [self EXCEPT !.buf_index = @ - 1,
                 !.pulled = Append(@, self.buf[self.buf_index])]

Init ==
    /\ drbg = NoDRBG
    /\ last = NoCall
    /\ gens = 0
    /\ wpc = "idle"
    /\ w = NoWrapper
    /\ wresult = "none"
    /\ rbg = NewRBG

\* The caller is between two operations: the last one has ended and its
\* result has been taken.
Ready == wpc = "idle" /\ last.op = "none" /\ wresult = "none"

\* What a call on the generator leaves: the object, the record of the
\* call, and the count of generate calls that succeeded since the last reseed.
CalledOn(before, op, by, count, data, entropy, r) ==
    /\ drbg' = r.self
    /\ last' = Call(op, by, count, data, entropy, r, before)
    /\ gens' = IF r.result /= "ok" THEN gens
               ELSE IF op = "generate" THEN gens + 1 ELSE 0

\* A call on the generator the caller holds.
Called(op, by, count, data, entropy, r) ==
    CalledOn(drbg, op, by, count, data, entropy, r)

\* The caller constructs the generator.
New ==
    /\ drbg.family = "none"
    /\ Ready
    /\ \E a \in Algs, in \in NewInputs :
         CalledOn(Blank(a[1], a[2]), "new", "caller", IntCount(0), in[2],
                  in[1], Construct(a[1], a[2], in[1], Ent(2), in[2]))
    /\ UNCHANGED <<wpc, w, wresult, rbg>>

\* The names the caller asks the factory for: supported ones of the three
\* families, one in capitals, one with text after the suffix, and names of no
\* algorithm.
FactoryNames ==
    {Spell("sha256"), Spell("sha512"), Spell("sha256") \o Spell("hmac"),
     <<"S", "H", "A", "5", "1", "2", "H", "M", "A", "C">>,
     Spell("aes128"), Spell("aes256"),
     <<"m", "d", "5">>, <<"s", "h", "a", "9", "9", "9">>,
     <<"s", "h", "a", "9", "9", "9", "h", "m", "a", "c">>,
     Spell("sha256") \o Spell("hmac") \o <<"x">>, <<>>}

\* What a call of the factory leaves: the generator returned, if any, is the
\* one the caller holds from now on.
Made(name, personalization_string, entropy, r) ==
    /\ drbg' = r.self
    /\ last' = [Call("factory", "caller", IntCount(0), personalization_string,
                     entropy, r, NoDRBG) EXCEPT !.name = name]
    /\ gens' = 0

\* The caller calls new(name, personalization_string).
Factory ==
    /\ drbg.family = "none"
    /\ Ready
    /\ \E name \in FactoryNames, p \in {None, Bytes(<<9>>)},
          e \in urandom(FactoryEntropyLen), n \in urandom(FactoryEntropyLen) :
         Made(name, p, Bytes(e), new(name, p, Bytes(e), Bytes(n)))
    /\ UNCHANGED <<wpc, w, wresult, rbg>>

\* The length of the longest byte string given to the codec.
MaxCodecLen == 3

\* The byte string b without its leading zero bytes.
RECURSIVE StripZeros(_)
StripZeros(b) ==
    IF Len(b) > 0 /\ Head(b) = 0 THEN StripZeros(Tail(b)) ELSE b

\* The integer of b is below 2^31 (the integers of TLC are 32-bit;
\* Python's are unbounded).
Fits(b) == Len(StripZeros(b)) < 4 \/ (Len(StripZeros(b)) = 4 /\ b[Len(b) - 3] < 128)

\* The byte strings given to the codec: every string of up to MaxCodecLen
\* bytes over bytes of both hexadecimal widths, zero and the all-ones byte.
CodecInputs ==
    {b \in UNION {[1..n -> {0, 1, 16, 127, 255}] : n \in 0..MaxCodecLen} :
       Fits(b)}

\* What a round trip through the codec leaves: out is
\* long2bytes(bytes2long(b)), padded is bytepad(out, len(b)).
RoundTripped(b, out) ==
    last' = [NoCall EXCEPT !.op = "codec", !.data = Bytes(b), !.out = out,
                           !.padded = bytepad(out, Len(b))]

\* The caller takes a byte string through bytes2long, long2bytes and bytepad.
RoundTrip ==
    /\ drbg.family = "none"
    /\ Ready
    /\ \E b \in CodecInputs : RoundTripped(b, long2bytes(bytes2long(b)))
    /\ UNCHANGED <<drbg, gens, wpc, w, wresult, rbg>>

\* Counter values of n bytes at and next to the ends of the range.
IncrInputs(n) ==
    {Rep(255, n), Rep(0, n), Rep(0, n - 1) \o <<255>>, <<254>> \o Rep(255, n - 1),
     <<127>> \o Rep(255, n - 1)}

\* One increment of a counter block as the generators make it: the V of
\* CTRDRBG._generate (lines 287-290), and the data of hashgen (line 412) as
\* line 411 pads it.
Incremented(self, V) ==
    IF self.family = "CTR" THEN CTRPadV(self, CTRIncr(self, V))
    ELSE bytepad(long2bytes((bytes2long(V) + 1) % 2^seedlen(self)),
                 seedlen(self) \div 8)

\* What an increment leaves: before holds the counter, out its successor.
IncrementedOn(self, V) ==
    last' = [NoCall EXCEPT !.op = "incr", !.before = [self EXCEPT !.V = V],
                           !.out = Incremented(self, V)]

\* The counter width of the object self, in bytes.
CounterWidth(self) ==
    IF self.family = "CTR" THEN outlen(self) \div 8 ELSE seedlen(self) \div 8

\* A counter block of a CTRDRBG or HashDRBG object is incremented.
Increment ==
    /\ drbg.family = "none"
    /\ Ready
    /\ \E a \in {x \in Algs : x[1] \in {"CTR", "Hash"}} :
         \E V \in IncrInputs(CounterWidth(Blank(a[1], a[2]))) :
           IncrementedOn(Blank(a[1], a[2]), V)
    /\ UNCHANGED <<drbg, gens, wpc, w, wresult, rbg>>

\* The caller calls drbg.generate(count, data).
Generate ==
    /\ drbg.family /= "none"
    /\ Ready
    /\ \E in \in GenInputs(drbg) :
         Called("generate", "caller", in[1], in[2], None,
                DRBG_generate(drbg, in[1], in[2]))
    /\ UNCHANGED <<wpc, w, wresult, rbg>>

\* The caller calls drbg.reseed(entropy, data).
Reseed ==
    /\ drbg.family /= "none"
    /\ Ready
    /\ \E in \in ReseedInputs :
         Called("reseed", "caller", IntCount(0), in[2], in[1],
                reseed(drbg, in[1], in[2]))
    /\ UNCHANGED <<wpc, w, wresult, rbg>>

\* The caller calls RandomByteGenerator(drbg).generate(count): lines 100-106.
WGenerate ==
    /\ drbg.family /= "none"
    /\ Ready
    /\ \E count \in WCounts(drbg) :
         w' = [NoWrapper EXCEPT !.req = count, !.count = count]
    /\ wpc' = "loop"
    /\ wresult' = "running"
    /\ UNCHANGED <<drbg, last, gens, rbg>>

\* The caller pulls one byte, next(rbg): the buffer is exhausted and
\* generate() is entered to refill it (lines 120-121), or a byte of the buffer
\* is yielded (lines 123-124).
WNext ==
    /\ drbg.family /= "none"
    /\ Ready
    /\ IF Exhausted(rbg)
       THEN /\ w' = [NoWrapper EXCEPT !.req = outlen(drbg) \div 8,
                                      !.count = outlen(drbg) \div 8,
                                      !.pull = TRUE]
            /\ wpc' = "loop"
            /\ wresult' = "running"
            /\ rbg' = [rbg EXCEPT !.refill_at = rbg.buf_index]
       ELSE /\ w' = [NoWrapper EXCEPT !.pull = TRUE]
            /\ wpc' = "idle"
            /\ wresult' = "ok"
            /\ rbg' = Yield(rbg)
    /\ UNCHANGED <<drbg, last, gens>>

\* generate() has returned to __next__: the buffer is replaced and its last
\* byte yielded (lines 121-124).
WRefilled ==
    /\ wpc = "refilled"
    /\ rbg' = Yield(Refill(rbg, w.buf))
    /\ wpc' = "idle"
    /\ wresult' = "ok"
    /\ UNCHANGED <<drbg, last, gens, w>>

\* Lines 110-115, with r what self.drbg.generate(count_) gave: the bytes are
\* appended, or the except clause is entered, or the exception goes on.
Attempted(count_, r) ==
    /\ Called("generate", "wrapper", IntCount(count_), None, None, r)
    /\ w' = IF r.result = "ok"
            THEN [w EXCEPT !.buf = @ \o r.out, !.count = @ - count_,
                           !.chunk = count_, !.reseeded = FALSE]
            ELSE [w EXCEPT !.chunk = count_]
    /\ wpc' = IF r.result = "ok" THEN "loop"
              ELSE IF r.result = "ReseedRequired" THEN "reseed" ELSE "idle"
    /\ wresult' = IF r.result \in {"ok", "ReseedRequired"} THEN wresult
                  ELSE r.result

\* One test of the while condition: an attempt at the next chunk (lines
\* 109-115), or the return of line 117.
WAttempt ==
    /\ wpc = "loop"
    /\ IF w.count > 0
       THEN Attempted(Chunk(drbg, w.count),
                      DRBG_generate(drbg, IntCount(Chunk(drbg, w.count)), None))
       ELSE /\ wpc' = IF w.pull THEN "refilled" ELSE "idle"
            /\ wresult' = IF w.pull THEN wresult ELSE "ok"
            /\ UNCHANGED <<drbg, last, gens, w>>
    /\ UNCHANGED rbg

\* Line 113, with r what self.drbg.reseed gave: the loop goes on, or the
\* exception goes on to the caller.
Reseeded(entropy, r) ==
    /\ Called("reseed", "wrapper", IntCount(0), None, entropy, r)
    /\ w' = IF r.result = "ok" THEN [w EXCEPT !.reseeded = TRUE] ELSE w
    /\ wpc' = IF r.result = "ok" THEN "loop" ELSE "idle"
    /\ wresult' = IF r.result = "ok" THEN wresult ELSE r.result

\* The except clause: self.drbg.reseed(os.urandom(32)).
WReseed ==
    /\ wpc = "reseed"
    /\ \E e \in urandom(WrapperEntropyLen) :
         Reseeded(Bytes(e), reseed(drbg, Bytes(e), None))
    /\ UNCHANGED rbg

\* The caller takes the result of the operation that has ended.
Continue ==
    /\ wpc = "idle"
    /\ ~Ready
    /\ last' = NoCall
    /\ w' = NoWrapper
    /\ wresult' = "none"
    /\ UNCHANGED <<drbg, gens, wpc, rbg>>

Next ==
    New \/ Factory \/ RoundTrip \/ Increment \/ Generate \/ Reseed \/ WGenerate \/ WNext \/ WAttempt
      \/ WReseed \/ WRefilled \/ Continue

Spec == Init /\ [][Next]_vars

(***************************************************************************)
(* Properties.  last is the last call made on the generator (by the caller  *)
(* or by the wrapper) and last.before the generator as that call found it.  *)
(***************************************************************************)
\* generate(count) with an int count in range and no additional input.
LegalGenerate ==
    /\ last.op = "generate"
    /\ last.count.t = "int"
    /\ CountInRange(last.before, last.count)
    /\ last.data = None

\* The wrapper call that is running or has just ended asked for a count the
\* wrapped generator takes in one request.
LegalWrapperRequest == 0 < w.req /\ w.req < max_request_size(drbg)

\* C1: in every family, a generate call made while reseed_counter exceeds
\* RESEED_INTERVAL returns no bytes and fails, with ReseedRequired when its
\* arguments are legal; a generate call succeeds only with reseed_counter <=
\* RESEED_INTERVAL; and at most RESEED_INTERVAL generate calls succeed
\* between construction (or a reseed) and the next reseed.
C1_NoOutputPastInterval ==
    /\ gens <= RESEED_INTERVAL
    /\ (last.op = "generate" /\ last.result = "ok")
         => last.before.reseed_counter <= RESEED_INTERVAL
    /\ (last.op = "generate" /\ last.before.reseed_counter > RESEED_INTERVAL)
         => /\ last.result /= "ok"
            /\ last.out = <<>>
            /\ LegalGenerate => last.result = "ReseedRequired"

\* C1's case: RESEED_INTERVAL calls have succeeded and the next one, legal,
\* was refused with ReseedRequired.
C1_Witness ==
    /\ LegalGenerate
    /\ gens = RESEED_INTERVAL
    /\ last.before.reseed_counter > RESEED_INTERVAL
    /\ last.result = "ReseedRequired"

\* C2: in every family, after a successful reseed(entropy, additional_input)
\* reseed_counter is exactly 1.
C2_ReseedSetsCounterToOne ==
    (last.op = "reseed" /\ last.result = "ok") => drbg.reseed_counter = 1

\* C3 as amended: a legal generate call raises ReseedRequired exactly when
\* reseed_counter has exceeded RESEED_INTERVAL (it is RESEED_INTERVAL + 1);
\* the call made with reseed_counter = RESEED_INTERVAL still succeeds, and no
\* generate call raises ReseedRequired while reseed_counter <= RESEED_INTERVAL.
C3_ReseedRequiredOncePastInterval ==
    /\ (last.op = "generate" /\ last.result = "ReseedRequired")
         => last.before.reseed_counter = RESEED_INTERVAL + 1
    /\ (LegalGenerate /\ last.before.reseed_counter = RESEED_INTERVAL + 1)
         => last.result = "ReseedRequired"
    /\ (LegalGenerate /\ last.before.reseed_counter <= RESEED_INTERVAL)
         => last.result = "ok"

\* C3's case: the call made with reseed_counter = RESEED_INTERVAL succeeded
\* and took the counter past the interval.
C3_Witness ==
    /\ LegalGenerate
    /\ last.before.reseed_counter = RESEED_INTERVAL
    /\ last.result = "ok"
    /\ drbg.reseed_counter = RESEED_INTERVAL + 1

\* C3 as stated: a legal generate call made with reseed_counter =
\* RESEED_INTERVAL raises ReseedRequired.
C3_RaisesAtInterval ==
    (LegalGenerate /\ last.before.reseed_counter = RESEED_INTERVAL)
        => last.result = "ReseedRequired"

\* C4: in a wrapper generate(count) with 0 < count < max_request_size, the
\* retry of a chunk after the wrapper has reseeded the generator succeeds, so
\* no chunk is attempted again and again and the loop comes to an end.
C4_RetryAfterReseedSucceeds ==
    (/\ last.op = "generate"
     /\ last.by = "wrapper"
     /\ w.reseeded
     /\ LegalWrapperRequest)
        => last.result = "ok"

\* C5: for every family and cipher or digest, the wrapped generator accepts
\* the wrapper's reseed, and a wrapper call for a legal count that ends, ends
\* with the bytes: no error reaches the wrapper's caller.
C5_WrapperReseedAccepted ==
    /\ (last.op = "reseed" /\ last.by = "wrapper") => last.result = "ok"
    /\ (wpc = "idle" /\ wresult /= "none" /\ LegalWrapperRequest)
         => wresult = "ok"

\* C6: every chunk the wrapper asks the wrapped generator for is a legal
\* request (0 < chunk < max_request_size), whatever count > 0 was asked of
\* the wrapper, and a wrapper call that returns, returns exactly count bytes.
C6_WrapperChunksLegal ==
    /\ (last.op = "generate" /\ last.by = "wrapper")
         => CountInRange(drbg, last.count)
    /\ (wresult = "ok" /\ w.req > 0) => Len(w.buf) = w.req

\* C7: in every family, while no reseed is required, generate(count) returns
\* exactly count bytes for every count in 1 .. max_request_size - 1, and
\* generate(0) and generate(max_request_size) fail with ValueError and
\* return no bytes.
C7_ExactlyCountBytes ==
    (/\ last.op = "generate"
     /\ last.count.t = "int"
     /\ last.data = None
     /\ ~ReseedDue(last.before))
        => IF CountInRange(last.before, last.count)
           THEN last.result = "ok" /\ Len(last.out) = last.count.n
           ELSE last.result = "ValueError" /\ last.out = <<>>

\* C7's case: the largest legal count was asked for and that many bytes,
\* more than one block, came back.
C7_Witness ==
    /\ LegalGenerate
    /\ last.count.n = max_request_size(drbg) - 1
    /\ last.result = "ok"
    /\ Len(last.out) = max_request_size(drbg) - 1

\* C8: a generate or reseed call that fails leaves Key, V, C and
\* reseed_counter as they were before the call.
C8_FailedCallKeepsState ==
    (last.op \in {"generate", "reseed"} /\ last.result /= "ok")
        => drbg = last.before

\* C9: a generate or reseed call given additional input longer than
\* MAX_ENTROPY_LENGTH fails with ValueError and leaves the generator as it
\* was before the call.
C9_OversizedInputRejected ==
    (/\ last.op \in {"generate", "reseed"}
     /\ IsBytes(last.data)
     /\ Len(last.data.b) > MAX_ENTROPY_LENGTH)
        => last.result = "ValueError" /\ drbg = last.before

\* C11: CTRDRBG accepts entropy, at construction and at reseed, only of
\* exactly seedlen = (outlen + keylen) / 8 bytes: with that length (and no
\* additional input) the call succeeds, with any other length, shorter or
\* longer, it fails with ValueError, no object is constructed, and a reseed
\* leaves Key, V and reseed_counter as they were.
C11_CTREntropyExactlySeedlen ==
    (/\ last.op \in {"new", "reseed"}
     /\ last.before.family = "CTR"
     /\ IsBytes(last.entropy)
     /\ (last.data = None \/ IsBytes(last.data)))
        => /\ last.result = "ok" => Len(last.entropy.b) = seedlen(last.before)
           /\ (Len(last.entropy.b) = seedlen(last.before) /\ last.data = None)
                => last.result = "ok"
           /\ Len(last.entropy.b) /= seedlen(last.before)
                => /\ last.result = "ValueError"
                   /\ last.op = "reseed" => drbg = last.before
                   /\ last.op = "new" => drbg = NoDRBG

\* C11's case: a reseed of a CTRDRBG with entropy one byte longer than
\* seedlen was rejected and the generator is as it was.
C11_Witness ==
    /\ last.op = "reseed"
    /\ last.before.family = "CTR"
    /\ IsBytes(last.entropy)
    /\ Len(last.entropy.b) = seedlen(last.before) + 1
    /\ last.result = "ValueError"
    /\ drbg = last.before
    /\ drbg.reseed_counter > 1

\* The algorithm names the factory is to serve: a digest name, a digest name
\* with the suffix hmac, a cipher name (in any case of the letters).
IsDigestName(name) == \E d \in DIGESTS : lower(name) = Spell(d)

IsHMACName(name) == \E d \in DIGESTS : lower(name) = Spell(d) \o Spell("hmac")

IsCipherName(name) == \E c \in CIPHERS : lower(name) = Spell(c)

\* C12: for every name that is no digest name, no digest name with the hmac
\* suffix and no cipher name, new raises UnknownAlgorithm: it returns nothing.
C12_UnknownNameRaises ==
    (/\ last.op = "factory"
     /\ ~IsDigestName(last.name)
     /\ ~IsHMACName(last.name)
     /\ ~IsCipherName(last.name))
        => last.result = "UnknownAlgorithm"

\* C13: for every supported name new returns a generator ready for generate
\* calls: a HashDRBG for a digest name, an HMACDRBG for a digest name with
\* the hmac suffix, a CTRDRBG for a cipher name.
C13_SupportedNameGivesGenerator ==
    (last.op = "factory"
     /\ (IsDigestName(last.name) \/ IsHMACName(last.name)
           \/ IsCipherName(last.name)))
        => /\ last.result = "ok"
           /\ drbg.reseed_counter = 1
           /\ IsDigestName(last.name) => drbg.family = "Hash"
           /\ IsHMACName(last.name) => drbg.family = "HMAC"
           /\ IsCipherName(last.name) => drbg.family = "CTR"

\* C14: the pull buffer of __next__.  The buffer is refilled only when
\* _buf_index is 0, by one full generate() call (outlen / 8 bytes); the bytes
\* yielded since the last refill are the bytes of the buffer from the last
\* backward, each once; and after every pull that returns a byte
\* 0 <= _buf_index < len(_buf), so that the next pull either yields a byte of
\* the buffer or refills it and never runs off its end.
C14_PullBuffer ==
    /\ rbg.refill_at = 0
    /\ Len(rbg.buf) \in {0, outlen(drbg) \div 8}
    /\ Len(rbg.pulled) = Len(rbg.buf) - rbg.buf_index
    /\ \A i \in 1..Len(rbg.pulled) :
           rbg.pulled[i] = rbg.buf[Len(rbg.buf) + 1 - i]
    /\ (w.pull /\ wresult = "ok") =>
           (0 <= rbg.buf_index /\ rbg.buf_index < Len(rbg.buf))

\* A buffer of two bytes has been pulled to its first byte, the second pull
\* having taken it from the buffer without a refill.
C14_Witness ==
    /\ w.pull
    /\ wresult = "ok"
    /\ Len(rbg.buf) = 2
    /\ rbg.buf_index = 0
    /\ rbg.pulled = <<rbg.buf[2], rbg.buf[1]>>
    /\ rbg.buf[1] /= rbg.buf[2]

\* A byte string with a byte that is not zero.
HasNonZero(b) == \E i \in 1..Len(b) : b[i] /= 0

\* C15: the codec round trip.  For a byte string b with a byte that is not
\* zero, long2bytes(bytes2long(b)) is b without its leading zero bytes; for
\* the empty string and every string of zero bytes it is the single zero
\* byte.  bytepad(long2bytes(bytes2long(b)), len(b)) is b for every b that is
\* not empty, and the single zero byte for the empty string.
C15_CodecRoundTrip ==
    last.op = "codec" =>
        /\ last.out = IF HasNonZero(last.data.b)
                      THEN StripZeros(last.data.b) ELSE <<0>>
        /\ last.padded = IF Len(last.data.b) > 0 THEN last.data.b ELSE <<0>>

\* A string with a leading zero byte and a low byte of one hexadecimal digit
\* has gone through the codec: the zero byte was stripped and put back.
C15_Witness ==
    /\ last.op = "codec"
    /\ last.data.b = <<0, 255, 1>>
    /\ last.out = <<255, 1>>
    /\ last.padded = <<0, 255, 1>>

\* C15 as stated: for every b, the empty string and strings of zero bytes
\* included, long2bytes(bytes2long(b)) is b without its leading zero bytes
\* and the padded result is b.
C15_RoundTripEveryString ==
    last.op = "codec" =>
        /\ last.out = StripZeros(last.data.b)
        /\ last.padded = last.data.b

\* C17: fixed state width.  In every state the generator the caller holds has
\* Key of keylen / 8 and V of outlen / 8 bytes (CTRDRBG), V and C of
\* seedlen / 8 bytes (HashDRBG), Key and V of outlen / 8 bytes (HMACDRBG); and
\* an increment of a counter block gives a block of the same width holding
\* the successor modulo 2^(8 * width), all zeros after all ones.
C17_FixedStateWidth ==
    /\ drbg.family = "CTR" =>
           Len(drbg.key) = keylen(drbg) \div 8 /\ Len(drbg.V) = outlen(drbg) \div 8
    /\ drbg.family = "Hash" =>
           Len(drbg.V) = seedlen(drbg) \div 8 /\ Len(drbg.C) = seedlen(drbg) \div 8
    /\ drbg.family = "HMAC" =>
           Len(drbg.key) = outlen(drbg) \div 8 /\ Len(drbg.V) = outlen(drbg) \div 8
    /\ last.op = "incr" =>
           /\ Len(last.out) = Len(last.before.V)
           /\ bytes2long(last.out) =
                  (bytes2long(last.before.V) + 1) % 256^Len(last.before.V)
           /\ (\A i \in 1..Len(last.before.V) : last.before.V[i] = 255) =>
                  \A i \in 1..Len(last.out) : last.out[i] = 0

\* A generate call of a HashDRBG has succeeded from a state in which V + C
\* alone reaches 2^seedlen, so that the sum stored in V has wrapped, and V has
\* kept its width.
C17_Witness ==
    /\ last.op = "generate"
    /\ last.result = "ok"
    /\ drbg.family = "Hash"
    /\ bytes2long(last.before.V) + bytes2long(last.before.C)
           >= 2^seedlen(last.before)
    /\ Len(drbg.V) = seedlen(drbg) \div 8
    /\ drbg.V /= last.before.V

\* The last call gave back what r gives back and left the object r leaves.
SameOutcome(r) ==
    /\ last.result = r.result
    /\ last.out = r.out
    /\ drbg = r.self

\* C18: in every family, generate(count, b'') returns the bytes and leaves the
\* state that generate(count, None) returns and leaves from the same state.
C18_EmptyDataAsNone ==
    (last.op = "generate" /\ last.data = Bytes(<<>>)) =>
        SameOutcome(DRBG_generate(last.before, last.count, None))

\* C19: the constant C of HashDRBG.  After a construction or a reseed that
\* succeeded C is df(0x00 || V, seedlen) of the V the object now holds; every
\* generate call, whether it succeeds or raises, with or without additional
\* input, leaves C as it was; and no generate or reseed call changes the class
\* or the digest of the object, which fix outlen, seedlen and max_request_size.
C19_HashConstantFrame ==
    /\ (drbg.family = "Hash" /\ last.op \in {"new", "reseed"}
          /\ last.result = "ok") =>
           drbg.C = Hash_df(drbg, <<0>> \o drbg.V, seedlen(drbg))
    /\ (last.op = "generate" /\ last.before.family = "Hash") =>
           drbg.C = last.before.C
    /\ last.op \in {"generate", "reseed"} =>
           /\ outlen(drbg) = outlen(last.before)
           /\ seedlen(drbg) = seedlen(last.before)
           /\ max_request_size(drbg) = max_request_size(last.before)

\* A generate call of a HashDRBG with additional input has succeeded: V has
\* changed, C has not, and C is no longer the df of the V the object holds.
C19_Witness ==
    /\ last.op = "generate"
    /\ last.result = "ok"
    /\ last.data = Bytes(<<9>>)
    /\ drbg.family = "Hash"
    /\ drbg.V /= last.before.V
    /\ drbg.C = last.before.C
    /\ drbg.C /= Hash_df(drbg, <<0>> \o drbg.V, seedlen(drbg))

====
